---- MODULE Spec2Model ----
(***************************************************************************)
(* Three Anchor programs of the repository as state machines over their    *)
(* account records:                                                        *)
(*   memory_safety_vulns   BufferAccount, TargetAccount, ComplexAccount    *)
(*   solana_program_close  Vault (total_deposited, is_active) + tokens     *)
(*   vault_manager         Vault (owner) + tokens, unchecked withdraw      *)
(* An instruction handler is an operator from the account image and the    *)
(* arguments to [ret, acc]: the value it returns and the image it leaves.  *)
(* The action named after the handler's Accounts struct validates the      *)
(* accounts, runs the handler, records the image the handler left in       *)
(* `written`, and keeps it in the account only when the handler returned   *)
(* Ok (an instruction that returns Err is aborted as a whole).             *)
(***************************************************************************)
EXTENDS Integers, Sequences, FiniteSets, TLC

VARIABLES
    buffer,     \* memory_safety_vulns: the BufferAccount
    target,     \* memory_safety_vulns: the TargetAccount
    complex,    \* memory_safety_vulns: the ComplexAccount
    vault,      \* solana_program_close: the Vault
    vaultTok,   \* solana_program_close: amount held by vault_token_account
    vm,         \* vault_manager: the Vault
    vmTok,      \* vault_manager: amount held by vault_token_account
    tok,        \* amount held by each identity's own token account
    last,       \* the last instruction: [op, ret, arg, seq]
    written     \* the account image the last handler left when it returned

vars == <<buffer, target, complex, vault, vaultTok, vm, vmTok, tok, last, written>>

memVars == <<buffer, target, complex>>
closeVars == <<vault, vaultTok>>
vmVars == <<vm, vmTok>>

----------------------------------------------------------------------------
(* Bounds of the model *)

\* byte values an instruction's data vector is filled with: 1..MaxByte
MaxByte == 2
\* data lengths up to MaxOver above the 64-byte capacity
MaxOver == 1

(* Program constants *)

\* [u8; 64] of BufferAccount.data, and the literal of the length check
BUFFER_CAP == 64
\* [u8; 32] of ComplexAccount.buffer, and the literal of the length check
COMPLEX_CAP == 32
\* values written by initialize_target / initialize_complex
INIT_DATA == 42
INIT_SENSITIVE == 12345

Bytes == 1..MaxByte

\* data.len(): empty, at and just above each capacity
DataLens ==
    {0, COMPLEX_CAP, COMPLEX_CAP + 1} \cup (BUFFER_CAP..(BUFFER_CAP + MaxOver))

\* the data: Vec<u8> arguments: n bytes of value b
Fill(b, n) == [i \in 1..n |-> b]
DataVecs == {Fill(b, n) : b \in Bytes, n \in DataLens}

Zeros(n) == [i \in 1..n |-> 0]

Res(r, a) == [ret |-> r, acc |-> a]

\* ptr::copy_nonoverlapping(src, dest, n) on a dest array: the first n bytes
\* of dest become those of src.  The callers guard n <= Len(dest).
copy_nonoverlapping(src, dest, n) ==
    [i \in 1..Len(dest) |-> IF i <= n THEN src[i] ELSE dest[i]]

\* An instruction whose handler returns Err is aborted: its account writes
\* are discarded.  Ok keeps the image the handler left.
Commit(ret, old, img) == IF ret = "Ok" THEN img ELSE old

----------------------------------------------------------------------------
(* memory_safety_vulns: account records *)

\* An account that has not been created has no data.  A created one is
\*   BufferAccount  [exists, size, data]
\*   TargetAccount  [exists, is_active, is_initialized, data, sensitive_data]
\*   ComplexAccount [exists, is_active, is_initialized, data, sensitive_data,
\*                   buffer]
NoAccount == [exists |-> FALSE]

(* memory_safety_vulns: handlers *)

\* (mutants of buffer_overflow_demo: no length check; copy before the check)
buffer_overflow_demo_unchecked(acc, data) ==
    Res("Ok", [acc EXCEPT
                 !.data = copy_nonoverlapping(data, acc.data, Len(data)),
                 !.size = Len(data)])

buffer_overflow_demo_copy_first(acc, data) ==
    LET copied == [acc EXCEPT
                     !.data = copy_nonoverlapping(data, acc.data, Len(data))]
    IN  IF Len(data) > BUFFER_CAP
        THEN Res("BufferOverflow", copied)
        ELSE Res("Ok", [copied EXCEPT !.size = Len(data)])

\* (mutant of buffer_overflow_demo: size only ever grows)
buffer_overflow_demo_grow(acc, data) ==
    IF Len(data) > BUFFER_CAP
    THEN Res("BufferOverflow", acc)
    ELSE Res("Ok", [acc EXCEPT
                      !.data = copy_nonoverlapping(data, acc.data, Len(data)),
                      !.size = IF acc.size > Len(data) THEN acc.size
                               ELSE Len(data)])

buffer_overflow_demo(acc, data) ==
    IF Len(data) > BUFFER_CAP
    THEN Res("BufferOverflow", acc)
    ELSE Res("Ok", [acc EXCEPT
                      !.data = copy_nonoverlapping(data, acc.data, Len(data)),
                      !.size = Len(data)])

\* (mutant of use_after_free_demo: the flag is tested before it is cleared)
use_after_free_demo_checked(acc) ==
    IF acc.is_active = 0
    THEN Res("UseAfterFree", acc)
    ELSE Res("Ok", [acc EXCEPT !.is_active = 0, !.data = 0])

use_after_free_demo(acc) ==
    LET freed == [acc EXCEPT !.is_active = 0, !.data = 0]
    IN  IF freed.is_active = 0
        THEN Res("UseAfterFree", freed)
        ELSE Res("Ok", freed)

uninitialized_memory_demo(acc) ==
    IF acc.is_initialized = 0
    THEN Res("UninitializedMemory", acc)
    ELSE Res("Ok", acc)

\* (mutant of double_free_demo: the close clears is_initialized as well)
double_free_demo_wipe(acc) ==
    IF acc.is_active = 1
    THEN Res("Ok", [acc EXCEPT !.is_active = 0, !.data = 0,
                               !.is_initialized = 0])
    ELSE Res("DoubleFree", acc)

\* (mutant of double_free_demo: a second close succeeds silently)
double_free_demo_silent(acc) ==
    Res("Ok", [acc EXCEPT !.is_active = 0, !.data = 0])

double_free_demo(acc) ==
    IF acc.is_active = 1
    THEN Res("Ok", [acc EXCEPT !.is_active = 0, !.data = 0])
    ELSE Res("DoubleFree", acc)

null_pointer_demo(acc, use_null) ==
    IF use_null
    THEN Res("NullPointerDereference", acc)   \* ptr::null() is null
    ELSE Res("Ok", acc)

initialize_buffer(acc) ==
    Res("Ok", [exists |-> TRUE, size |-> 0, data |-> Zeros(BUFFER_CAP)])

initialize_target(acc) ==
    Res("Ok", [exists |-> TRUE, is_active |-> 1, is_initialized |-> 1,
               data |-> INIT_DATA, sensitive_data |-> INIT_SENSITIVE])

initialize_complex(acc) ==
    Res("Ok", [exists |-> TRUE, is_active |-> 1, is_initialized |-> 1,
               data |-> INIT_DATA, sensitive_data |-> INIT_SENSITIVE,
               buffer |-> Zeros(COMPLEX_CAP)])

\* (mutant of complex_vulnerability_demo: a code outside 1..3 closes the
\* record and returns Ok)
complex_vulnerability_demo_lenient(acc, operation, data) ==
    IF operation \in 1..3
    THEN CASE operation = 1 ->
                IF Len(data) > COMPLEX_CAP
                THEN Res("BufferOverflow", acc)
                ELSE Res("Ok", [acc EXCEPT !.buffer =
                         copy_nonoverlapping(data, acc.buffer, Len(data))])
           [] operation = 2 ->
                Res("UseAfterFree", [acc EXCEPT !.is_active = 0])
           [] operation = 3 ->
                IF acc.is_active = 0
                THEN Res("DoubleFree", acc)
                ELSE Res("Ok", [acc EXCEPT !.is_active = 0])
    ELSE Res("Ok", [acc EXCEPT !.is_active = 0])

complex_vulnerability_demo(acc, operation, data) ==
    CASE operation = 1 ->
           \* is_initialized = 0 is only logged; the handler goes on
           IF Len(data) > COMPLEX_CAP
           THEN Res("BufferOverflow", acc)
           ELSE Res("Ok", [acc EXCEPT !.buffer =
                    copy_nonoverlapping(data, acc.buffer, Len(data))])
      [] operation = 2 ->
           LET freed == [acc EXCEPT !.is_active = 0]
           IN  IF freed.is_active = 0
               THEN Res("UseAfterFree", freed)
               ELSE Res("Ok", freed)
      [] operation = 3 ->
           IF acc.is_active = 0
           THEN Res("DoubleFree", acc)
           ELSE Res("Ok", [acc EXCEPT !.is_active = 0])
      [] OTHER -> Res("InvalidOperation", acc)

----------------------------------------------------------------------------
(* memory_safety_vulns: instructions *)

\* The *Demo Accounts structs: AccountLoader<T> accepts an account this
\* program has created; user: Signer is the transaction's fee payer, who
\* has signed.
LoadAccount(acc) ==
    IF ~acc.exists THEN "AccountOwnedByWrongProgram" ELSE "Ok"

\* The Initialize* structs: #[account(init, payer = user)] creates the
\* account, which fails when it is there already.
InitAccount(acc) ==
    IF acc.exists THEN "AccountAlreadyInUse" ELSE "Ok"

\* What an instruction leaves to observe: its name, arguments and result,
\* and the image its handler left.  seq tells a call from the one before.
Call(op, arg, r) ==
    /\ last' = [op |-> op, ret |-> r.ret, arg |-> arg, seq |-> 1 - last.seq]
    /\ written' = r.acc

NoArg == [none |-> TRUE]

BufferCall(op, arg, r) ==
    /\ buffer' = Commit(r.ret, buffer, r.acc)
    /\ Call(op, arg, r)
    /\ UNCHANGED <<target, complex, closeVars, vmVars, tok>>

TargetCall(op, arg, r) ==
    /\ target' = Commit(r.ret, target, r.acc)
    /\ Call(op, arg, r)
    /\ UNCHANGED <<buffer, complex, closeVars, vmVars, tok>>

ComplexCall(op, arg, r) ==
    /\ complex' = Commit(r.ret, complex, r.acc)
    /\ Call(op, arg, r)
    /\ UNCHANGED <<buffer, target, closeVars, vmVars, tok>>

BufferOverflowDemo ==
    \E data \in DataVecs :
        LET v == LoadAccount(buffer)
        IN  BufferCall("buffer_overflow_demo", [data |-> data],
                IF v # "Ok" THEN Res(v, buffer)
                ELSE buffer_overflow_demo(buffer, data))

InitializeBuffer ==
    LET v == InitAccount(buffer)
    IN  BufferCall("initialize_buffer", NoArg,
            IF v # "Ok" THEN Res(v, buffer) ELSE initialize_buffer(buffer))

UseAfterFreeDemo ==
    LET v == LoadAccount(target)
    IN  TargetCall("use_after_free_demo", NoArg,
            IF v # "Ok" THEN Res(v, target) ELSE use_after_free_demo(target))

UninitializedDemo ==
    LET v == LoadAccount(target)
    IN  TargetCall("uninitialized_memory_demo", NoArg,
            IF v # "Ok" THEN Res(v, target)
            ELSE uninitialized_memory_demo(target))

DoubleFreeDemo ==
    LET v == LoadAccount(target)
    IN  TargetCall("double_free_demo", NoArg,
            IF v # "Ok" THEN Res(v, target) ELSE double_free_demo(target))

NullPointerDemo ==
    \E use_null \in BOOLEAN :
        LET v == LoadAccount(target)
        IN  TargetCall("null_pointer_demo", [use_null |-> use_null],
                IF v # "Ok" THEN Res(v, target)
                ELSE null_pointer_demo(target, use_null))

InitializeTarget ==
    LET v == InitAccount(target)
    IN  TargetCall("initialize_target", NoArg,
            IF v # "Ok" THEN Res(v, target) ELSE initialize_target(target))

InitializeComplex ==
    LET v == InitAccount(complex)
    IN  ComplexCall("initialize_complex", NoArg,
            IF v # "Ok" THEN Res(v, complex) ELSE initialize_complex(complex))

\* operation: u8; 0 and 4 stand for the codes outside 1..3
Operations == 0..4

ComplexDemo ==
    \E operation \in Operations, data \in DataVecs :
        LET v == LoadAccount(complex)
        IN  ComplexCall("complex_vulnerability_demo",
                [operation |-> operation, data |-> data],
                IF v # "Ok" THEN Res(v, complex)
                ELSE complex_vulnerability_demo(complex, operation, data))

NextBuffer ==
    \/ BufferOverflowDemo
    \/ InitializeBuffer

NextTarget ==
    \/ UseAfterFreeDemo
    \/ UninitializedDemo
    \/ DoubleFreeDemo
    \/ NullPointerDemo
    \/ InitializeTarget
    \/ InitializeComplex
    \/ ComplexDemo

----------------------------------------------------------------------------
(* Identities and tokens *)

\* const ADMIN_PUBKEY: Pubkey = pubkey!("11111111111111111111111111111111")
ADMIN_PUBKEY == "11111111111111111111111111111111"

Identity == {"A", "B", ADMIN_PUBKEY}

\* u64::MAX, scaled down: amounts and balances range over 0..MaxU64
MaxU64 == 4
\* tokens that A and B each hold at the start: the supply fits a u64
InitTokens == MaxU64 \div 2

\* the identities whose token accounts are passed to the instructions
TokenHolders == {"A", "B"}

Amounts == 0..MaxU64

\* u64::checked_sub: None when the difference would be below 0
checked_sub(a, b) ==
    IF b > a THEN [some |-> FALSE, val |-> 0]
    ELSE [some |-> TRUE, val |-> a - b]

\* token::transfer (SPL token program): moves amount from the source to the
\* destination token account; auth_ok: the authority given is the source
\* account's owner and has signed; mint_ok: both accounts are of one mint.
token_transfer(from, to, amount, auth_ok, mint_ok) ==
    IF from < amount
    THEN [ret |-> "TokenInsufficientFunds", from |-> from, to |-> to]
    ELSE IF ~mint_ok
    THEN [ret |-> "TokenMintMismatch", from |-> from, to |-> to]
    ELSE IF ~auth_ok
    THEN [ret |-> "TokenOwnerMismatch", from |-> from, to |-> to]
    ELSE IF to + amount > MaxU64
    THEN [ret |-> "TokenOverflow", from |-> from, to |-> to]
    ELSE [ret |-> "Ok", from |-> from - amount, to |-> to + amount]

----------------------------------------------------------------------------
(* solana_program_close *)

\* A created Vault is [exists, owner, total_deposited, is_active].

\* What a handler of this program works on: the Vault account, the amount in
\* vault_token_account and the amount in the user_token_account passed.
World(v, vt, ut) == [vault |-> v, vault_tok |-> vt, user_tok |-> ut]

\* (mutant of initialize_vault: the balance starts at 0 whatever is deposited)
initialize_vault_empty(w, owner, initial_deposit, auth_ok, mint_ok) ==
    LET v == [exists |-> TRUE, owner |-> owner,
              total_deposited |-> 0, is_active |-> TRUE]
        t == token_transfer(w.user_tok, w.vault_tok, initial_deposit,
                            auth_ok, mint_ok)
    IN  Res(t.ret, World(v, t.to, t.from))

initialize_vault(w, owner, initial_deposit, auth_ok, mint_ok) ==
    LET v == [exists |-> TRUE, owner |-> owner,
              total_deposited |-> initial_deposit, is_active |-> TRUE]
        t == token_transfer(w.user_tok, w.vault_tok, initial_deposit,
                            auth_ok, mint_ok)
    IN  Res(t.ret, World(v, t.to, t.from))

\* (mutant of deposit: the sum wraps around instead of being checked)
deposit_wrapping(w, amount, auth_ok, mint_ok) ==
    LET v == [w.vault EXCEPT !.total_deposited =
                (w.vault.total_deposited + amount) % (MaxU64 + 1)]
        t == token_transfer(w.user_tok, w.vault_tok, amount, auth_ok, mint_ok)
    IN  Res(t.ret, World(v, t.to, t.from))

deposit(w, amount, auth_ok, mint_ok) ==
    IF w.vault.total_deposited + amount > MaxU64
    THEN Res("Panic", w)        \* checked_add(amount).unwrap() on None
    ELSE LET v == [w.vault EXCEPT
                     !.total_deposited = w.vault.total_deposited + amount]
             t == token_transfer(w.user_tok, w.vault_tok, amount,
                                 auth_ok, mint_ok)
         IN  Res(t.ret, World(v, t.to, t.from))

\* (mutant of withdraw: the funds check rejects amount = total_deposited)
withdraw_strict(w, amount, mint_ok) ==
    IF ~w.vault.is_active THEN Res("VaultInactive", w)
    ELSE IF ~(w.vault.total_deposited > amount)
    THEN Res("InsufficientFunds", w)
    ELSE LET v == [w.vault EXCEPT
                     !.total_deposited = w.vault.total_deposited - amount]
             t == token_transfer(w.vault_tok, w.user_tok, amount,
                                 TRUE, mint_ok)
         IN  Res(t.ret, World(v, t.from, t.to))

\* (mutant of withdraw: the tokens leave but total_deposited is not lowered)
withdraw_unrecorded(w, amount, mint_ok) ==
    IF ~w.vault.is_active THEN Res("VaultInactive", w)
    ELSE IF ~(w.vault.total_deposited >= amount)
    THEN Res("InsufficientFunds", w)
    ELSE LET t == token_transfer(w.vault_tok, w.user_tok, amount,
                                 TRUE, mint_ok)
         IN  Res(t.ret, World(w.vault, t.from, t.to))

\* (mutant of withdraw: the funds check comes before the state check)
withdraw_funds_first(w, amount, mint_ok) ==
    IF ~(w.vault.total_deposited >= amount)
    THEN Res("InsufficientFunds", w)
    ELSE IF ~w.vault.is_active THEN Res("VaultInactive", w)
    ELSE LET v == [w.vault EXCEPT
                     !.total_deposited = w.vault.total_deposited - amount]
             t == token_transfer(w.vault_tok, w.user_tok, amount,
                                 TRUE, mint_ok)
         IN  Res(t.ret, World(v, t.from, t.to))

\* (mutant of withdraw: no funds check before the subtraction)
withdraw_unguarded(w, amount, mint_ok) ==
    IF ~w.vault.is_active THEN Res("VaultInactive", w)
    ELSE LET d == checked_sub(w.vault.total_deposited, amount)
         IN  IF ~d.some THEN Res("Panic", w)
             ELSE LET v == [w.vault EXCEPT !.total_deposited = d.val]
                      t == token_transfer(w.vault_tok, w.user_tok, amount,
                                          TRUE, mint_ok)
                  IN  Res(t.ret, World(v, t.from, t.to))

withdraw(w, amount, mint_ok) ==
    IF ~w.vault.is_active THEN Res("VaultInactive", w)
    ELSE IF ~(w.vault.total_deposited >= amount)
    THEN Res("InsufficientFunds", w)
    ELSE LET d == checked_sub(w.vault.total_deposited, amount)
         IN  IF ~d.some THEN Res("Panic", w)      \* unwrap() on None
             ELSE LET v == [w.vault EXCEPT !.total_deposited = d.val]
                      \* the vault PDA signs with its own seeds
                      t == token_transfer(w.vault_tok, w.user_tok, amount,
                                          TRUE, mint_ok)
                  IN  Res(t.ret, World(v, t.from, t.to))

\* (mutant of emergency_close_vault: any signer closes the vault)
emergency_close_vault_any(v, authority) ==
    Res("Ok", [v EXCEPT !.is_active = FALSE])

emergency_close_vault(v, authority) ==
    IF ~(authority = ADMIN_PUBKEY) THEN Res("Unauthorized", v)
    ELSE Res("Ok", [v EXCEPT !.is_active = FALSE])

\* (mutant of emergency_recover: any signer reactivates the vault)
emergency_recover_any(v, authority) ==
    Res("Ok", [v EXCEPT !.is_active = TRUE])

emergency_recover(v, authority) ==
    IF ~(authority = ADMIN_PUBKEY) THEN Res("Unauthorized", v)
    ELSE Res("Ok", [v EXCEPT !.is_active = TRUE])

\* InitializeVault: owner: Signer; vault: init at the owner's PDA
InitializeVaultAccounts(v, owner, signed) ==
    IF ~signed THEN "AccountNotSigner"
    ELSE IF v.exists THEN "AccountAlreadyInUse"
    ELSE "Ok"

\* Deposit and Withdraw: vault: Account<Vault> with seeds = [b"vault", owner],
\* has_one = owner; owner: Signer.  The vault_token_account passed is the
\* vault's own (has_one = vault_token_account rejects any other).
OwnerSignedAccounts(v, owner, signed) ==
    IF ~v.exists THEN "AccountNotInitialized"
    ELSE IF ~signed THEN "AccountNotSigner"
    ELSE IF owner # v.owner THEN "ConstraintSeeds"
    ELSE "Ok"

\* EmergencyClose and EmergencyRecover: vault: Account<Vault>;
\* authority: Signer
AuthorityAccounts(v, signed) ==
    IF ~v.exists THEN "AccountNotInitialized"
    ELSE IF ~signed THEN "AccountNotSigner"
    ELSE "Ok"

\* The instruction ends: the accounts keep the handler's image on Ok.
CloseCall(op, arg, uta, w, r) ==
    LET c == Commit(r.ret, w, r.acc)
    IN  /\ vault' = c.vault
        /\ vaultTok' = c.vault_tok
        /\ tok' = [tok EXCEPT ![uta] = c.user_tok]
        /\ Call(op, arg, r)
        /\ UNCHANGED <<memVars, vmVars>>

InitializeVault ==
    \E owner \in Identity, signed \in BOOLEAN, initial_deposit \in Amounts,
       uta \in TokenHolders, mint_ok \in BOOLEAN :
        /\ vault.exists => owner = vault.owner     \* this vault's PDA
        /\ LET w == World(vault, vaultTok, tok[uta])
               v == InitializeVaultAccounts(vault, owner, signed)
           IN  CloseCall("initialize_vault",
                   [owner |-> owner, signed |-> signed,
                    amount |-> initial_deposit, uta |-> uta,
                    mint_ok |-> mint_ok], uta, w,
                   IF v # "Ok" THEN Res(v, w)
                   ELSE initialize_vault(w, owner, initial_deposit,
                                         uta = owner, mint_ok))

Deposit ==
    \E owner \in Identity, signed \in BOOLEAN, amount \in Amounts,
       uta \in TokenHolders, mint_ok \in BOOLEAN :
        LET w == World(vault, vaultTok, tok[uta])
            v == OwnerSignedAccounts(vault, owner, signed)
        IN  CloseCall("deposit",
                [owner |-> owner, signed |-> signed, amount |-> amount,
                 uta |-> uta, mint_ok |-> mint_ok], uta, w,
                IF v # "Ok" THEN Res(v, w)
                ELSE deposit(w, amount, uta = owner, mint_ok))

Withdraw ==
    \E owner \in Identity, signed \in BOOLEAN, amount \in Amounts,
       uta \in TokenHolders, mint_ok \in BOOLEAN :
        LET w == World(vault, vaultTok, tok[uta])
            v == OwnerSignedAccounts(vault, owner, signed)
        IN  CloseCall("withdraw",
                [owner |-> owner, signed |-> signed, amount |-> amount,
                 uta |-> uta, mint_ok |-> mint_ok], uta, w,
                IF v # "Ok" THEN Res(v, w)
                ELSE withdraw(w, amount, mint_ok))

EmergencyCall(op, arg, r) ==
    /\ vault' = Commit(r.ret, vault, r.acc)
    /\ Call(op, arg, r)
    /\ UNCHANGED <<vaultTok, tok, memVars, vmVars>>

EmergencyClose ==
    \E authority \in Identity, signed \in BOOLEAN :
        LET v == AuthorityAccounts(vault, signed)
        IN  EmergencyCall("emergency_close_vault",
                [authority |-> authority, signed |-> signed],
                IF v # "Ok" THEN Res(v, vault)
                ELSE emergency_close_vault(vault, authority))

EmergencyRecover ==
    \E authority \in Identity, signed \in BOOLEAN :
        LET v == AuthorityAccounts(vault, signed)
        IN  EmergencyCall("emergency_recover",
                [authority |-> authority, signed |-> signed],
                IF v # "Ok" THEN Res(v, vault)
                ELSE emergency_recover(vault, authority))

NextClose ==
    \/ InitializeVault
    \/ Deposit
    \/ Withdraw
    \/ EmergencyClose
    \/ EmergencyRecover

----------------------------------------------------------------------------
(* vault_manager (missing-signer-check) *)

\* A created Vault is [exists, owner].

vm_initialize_vault(w, owner) ==
    Res("Ok", [w EXCEPT !.vault = [exists |-> TRUE, owner |-> owner]])

vm_deposit(w, amount, auth_ok, mint_ok) ==
    LET t == token_transfer(w.user_tok, w.vault_tok, amount, auth_ok, mint_ok)
    IN  Res(t.ret, World(w.vault, t.to, t.from))

\* the vault PDA signs with seeds [b"vault", owner_key, bump]
vm_withdraw(w, amount, mint_ok) ==
    LET t == token_transfer(w.vault_tok, w.user_tok, amount, TRUE, mint_ok)
    IN  Res(t.ret, World(w.vault, t.from, t.to))

secure_withdraw(w, amount) == Res("NotImplemented", w)

\* InitializeVault: owner: Signer; vault: init at the owner's PDA
VmInitializeVaultAccounts(v, owner, signed) ==
    IF ~signed THEN "AccountNotSigner"
    ELSE IF v.exists THEN "AccountAlreadyInUse"
    ELSE "Ok"

\* Deposit: seeds = [b"vault", owner], has_one = owner; owner: Signer.  The
\* vault_token_account passed is the vault's own.
VmDepositAccounts(v, owner, signed) ==
    IF ~v.exists THEN "AccountNotInitialized"
    ELSE IF ~signed THEN "AccountNotSigner"
    ELSE IF owner # v.owner THEN "ConstraintSeeds"
    ELSE "Ok"

\* WithdrawCtx and SecureWithdrawCtx: the same constraints on vault, but
\* owner: UncheckedAccount: whether it signed is never looked at
WithdrawCtxAccounts(v, owner, signed) ==
    IF ~v.exists THEN "AccountNotInitialized"
    ELSE IF owner # v.owner THEN "ConstraintSeeds"
    ELSE "Ok"

VmCall(op, arg, uta, w, r) ==
    LET c == Commit(r.ret, w, r.acc)
    IN  /\ vm' = c.vault
        /\ vmTok' = c.vault_tok
        /\ tok' = [tok EXCEPT ![uta] = c.user_tok]
        /\ Call(op, arg, r)
        /\ UNCHANGED <<memVars, closeVars>>

VmInitializeVault ==
    \E owner \in Identity, signed \in BOOLEAN :
        /\ vm.exists => owner = vm.owner           \* this vault's PDA
        /\ LET w == World(vm, vmTok, tok[owner])
               v == VmInitializeVaultAccounts(vm, owner, signed)
           IN  VmCall("vault_manager::initialize_vault",
                   [owner |-> owner, signed |-> signed], owner, w,
                   IF v # "Ok" THEN Res(v, w)
                   ELSE vm_initialize_vault(w, owner))

VmDeposit ==
    \E owner \in Identity, signed \in BOOLEAN, amount \in Amounts,
       source \in TokenHolders, mint_ok \in BOOLEAN :
        LET w == World(vm, vmTok, tok[source])
            v == VmDepositAccounts(vm, owner, signed)
        IN  VmCall("vault_manager::deposit",
                [owner |-> owner, signed |-> signed, amount |-> amount,
                 uta |-> source, mint_ok |-> mint_ok], source, w,
                IF v # "Ok" THEN Res(v, w)
                ELSE vm_deposit(w, amount, source = owner, mint_ok))

WithdrawCtx ==
    \E owner \in Identity, signed \in BOOLEAN, amount \in Amounts,
       destination \in TokenHolders, mint_ok \in BOOLEAN :
        LET w == World(vm, vmTok, tok[destination])
            v == WithdrawCtxAccounts(vm, owner, signed)
        IN  VmCall("vault_manager::withdraw",
                [owner |-> owner, signed |-> signed, amount |-> amount,
                 uta |-> destination, mint_ok |-> mint_ok], destination, w,
                IF v # "Ok" THEN Res(v, w)
                ELSE vm_withdraw(w, amount, mint_ok))

SecureWithdrawCtx ==
    \E owner \in Identity, signed \in BOOLEAN, amount \in Amounts,
       destination \in TokenHolders :
        LET w == World(vm, vmTok, tok[destination])
            v == WithdrawCtxAccounts(vm, owner, signed)
        IN  VmCall("vault_manager::secure_withdraw",
                [owner |-> owner, signed |-> signed, amount |-> amount,
                 uta |-> destination], destination, w,
                IF v # "Ok" THEN Res(v, w)
                ELSE secure_withdraw(w, amount))

NextVm ==
    \/ VmInitializeVault
    \/ VmDeposit
    \/ WithdrawCtx
    \/ SecureWithdrawCtx

----------------------------------------------------------------------------
(* Specifications *)

Init ==
    /\ buffer = NoAccount
    /\ target = NoAccount
    /\ complex = NoAccount
    /\ vault = NoAccount
    /\ vaultTok = 0
    /\ vm = NoAccount
    /\ vmTok = 0
    /\ tok = [i \in Identity |-> IF i = ADMIN_PUBKEY THEN 0 ELSE InitTokens]
    /\ last = [op |-> "none", ret |-> "Ok", arg |-> NoArg, seq |-> 0]
    /\ written = NoAccount

Next == NextBuffer \/ NextTarget \/ NextClose \/ NextVm

\* all three programs deployed side by side
Spec == Init /\ [][Next]_vars

\* one program, or a part of one, at a time: they share no account
\* the two byte buffers: BufferAccount.data and ComplexAccount.buffer
NextBytes == NextBuffer \/ InitializeComplex \/ ComplexDemo
SpecBytes == Init /\ [][NextBytes]_vars
\* the two records with a lifecycle flag: TargetAccount and ComplexAccount
SpecTarget == Init /\ [][NextTarget]_vars

\* The handlers of TargetAccount and ComplexAccount as functions of the
\* account they are handed: the run starts from any image of a created
\* account, whatever wrote it.
TargetImages ==
    [exists : {TRUE}, is_active : {0, 1}, is_initialized : {0, 1},
     data : {0, INIT_DATA}, sensitive_data : {0, INIT_SENSITIVE}]

ComplexImages ==
    [exists : {TRUE}, is_active : {0, 1}, is_initialized : {0, 1},
     data : {0, INIT_DATA}, sensitive_data : {0, INIT_SENSITIVE},
     buffer : {Zeros(COMPLEX_CAP)}]

InitImage ==
    /\ target \in TargetImages
    /\ complex \in ComplexImages
    /\ buffer = NoAccount
    /\ vault = NoAccount
    /\ vaultTok = 0
    /\ vm = NoAccount
    /\ vmTok = 0
    /\ tok = [i \in Identity |-> IF i = ADMIN_PUBKEY THEN 0 ELSE InitTokens]
    /\ last = [op |-> "none", ret |-> "Ok", arg |-> NoArg, seq |-> 0]
    /\ written = NoAccount

SpecImage == InitImage /\ [][NextTarget]_vars
SpecClose == Init /\ [][NextClose]_vars
SpecVm == Init /\ [][NextVm]_vars

\* the two vault programs (they share no account: a run works on one)
NextVaults ==
    \/ ~vm.exists /\ NextClose
    \/ ~vault.exists /\ NextVm
SpecVaults == Init /\ [][NextVaults]_vars

\* the records with a lifecycle flag of both programs: the Vault of
\* solana_program_close beside TargetAccount and ComplexAccount
\* (the two programs share no account: a run works on one of them)
NextLifecycle ==
    \/ ~target.exists /\ ~complex.exists /\ NextClose
    \/ ~vault.exists /\ NextTarget
SpecLifecycle == Init /\ [][NextLifecycle]_vars

----------------------------------------------------------------------------
(* Claims *)

\* C1: a withdraw whose named owner is not the vault's owner, or whose named
\* owner has not signed, fails with an authorization fault and leaves the
\* tokens held by the vault unchanged.  Stated of vault_manager's withdraw
\* by what the claim concludes of the balance: no such call takes tokens
\* out of the vault.
C1_WithdrawNeedsOwnerSignature ==
    [][ ( /\ last'.op = "vault_manager::withdraw"
          /\ vm.exists
          /\ (last'.arg.owner # vm.owner \/ ~last'.arg.signed) )
        => vmTok' = vmTok ]_vars

\* C2: a write of more bytes than the capacity returns BufferOverflow, and
\* neither the account nor the image the handler leaves differs from the
\* account before the call (nothing is copied before the check), for
\* buffer_overflow_demo (64) and complex_vulnerability_demo operation 1 (32).
C2_OverlongWriteRejected ==
    [][ /\ ( ( /\ last'.op = "buffer_overflow_demo"
               /\ buffer.exists
               /\ Len(last'.arg.data) > BUFFER_CAP )
             => ( /\ last'.ret = "BufferOverflow"
                  /\ buffer' = buffer
                  /\ written' = buffer ) )
        /\ ( ( /\ last'.op = "complex_vulnerability_demo"
               /\ last'.arg.operation = 1
               /\ complex.exists
               /\ Len(last'.arg.data) > COMPLEX_CAP )
             => ( /\ last'.ret = "BufferOverflow"
                  /\ complex' = complex
                  /\ written' = complex ) ) ]_vars

\* an overlong write to a buffer that holds data has been rejected
C2_Witness ==
    /\ last.op = "buffer_overflow_demo"
    /\ Len(last.arg.data) > BUFFER_CAP
    /\ last.ret = "BufferOverflow"
    /\ buffer.size = BUFFER_CAP
    /\ buffer.data[BUFFER_CAP] # last.arg.data[BUFFER_CAP]

\* C3: the recorded size of the buffer account never exceeds the capacity,
\* in the account and in the image any buffer instruction leaves.
C3_SizeWithinCapacity ==
    /\ buffer.exists => buffer.size <= BUFFER_CAP
    /\ ( /\ last.op \in {"buffer_overflow_demo", "initialize_buffer"}
         /\ written.exists ) => written.size <= BUFFER_CAP

\* a full buffer, after a longer write was refused
C3_Witness ==
    /\ buffer.exists
    /\ buffer.size = BUFFER_CAP
    /\ last.op = "buffer_overflow_demo"
    /\ Len(last.arg.data) = BUFFER_CAP + 1

\* C4: a close right after a close that succeeded returns DoubleFree and
\* changes nothing, for double_free_demo and for operation 3 of
\* complex_vulnerability_demo.
C4_SecondCloseIsDoubleFree ==
    [][ /\ ( ( /\ last.op = "double_free_demo"
               /\ last.ret = "Ok"
               /\ last'.op = "double_free_demo" )
             => ( /\ last'.ret = "DoubleFree"
                  /\ target' = target
                  /\ written' = target ) )
        /\ ( ( /\ last.op = "complex_vulnerability_demo"
               /\ last.arg.operation = 3
               /\ last.ret = "Ok"
               /\ last'.op = "complex_vulnerability_demo"
               /\ last'.arg.operation = 3 )
             => ( /\ last'.ret = "DoubleFree"
                  /\ complex' = complex
                  /\ written' = complex ) ) ]_vars

\* the second close has returned DoubleFree on a record that a first close
\* had marked inactive
C4_Witness ==
    /\ last.op = "double_free_demo"
    /\ last.ret = "DoubleFree"
    /\ target.exists
    /\ target.is_active = 0
    /\ target.data = 0

\* C5: closing a vault whose balance is greater than zero fails with
\* NonZeroBalance and leaves it active, its balance unchanged.  Stated of the
\* calls the designated authority has signed.
C5_CloseRefusedOnBalance ==
    [][ ( /\ last'.op = "emergency_close_vault"
          /\ vault.exists
          /\ vault.is_active
          /\ vault.total_deposited > 0
          /\ last'.arg.authority = ADMIN_PUBKEY
          /\ last'.arg.signed )
        => ( /\ last'.ret = "NonZeroBalance"
             /\ vault'.is_active
             /\ vault'.total_deposited = vault.total_deposited ) ]_vars

\* C6: a vault that is closed (is_active = false) has total_deposited = 0.
C6_ClosedVaultIsEmpty ==
    (vault.exists /\ ~vault.is_active) => vault.total_deposited = 0

\* C7: no operation but the authorized recover changes a closed record: a
\* deposit on a closed vault fails with the not-active fault and leaves the
\* balance unchanged.  Stated of the deposits the vault's owner has signed,
\* by what the claim concludes of the record: total_deposited stays.
C7_DepositRefusedWhenClosed ==
    [][ ( /\ last'.op = "deposit"
          /\ vault.exists
          /\ ~vault.is_active
          /\ last'.arg.owner = vault.owner
          /\ last'.arg.signed )
        => vault'.total_deposited = vault.total_deposited ]_vars

\* the owner's signed withdraw of `amount` from the vault, as a step
OwnerWithdraws ==
    /\ last'.op = "withdraw"
    /\ vault.exists
    /\ last'.arg.owner = vault.owner
    /\ last'.arg.signed

\* the token program accepts the transfer the withdraw asks for
TransferAccepted ==
    token_transfer(vaultTok, tok[last'.arg.uta], last'.arg.amount, TRUE,
                   last'.arg.mint_ok).ret = "Ok"

C9_RecoverRefusedWhenActive ==
    [][ ( /\ last'.op = "emergency_recover"
          /\ vault.exists
          /\ vault.is_active
          /\ last'.arg.authority = ADMIN_PUBKEY
          /\ last'.arg.signed )
        => ( /\ last'.ret = "NotClosed"
             /\ vault' = vault ) ]_vars

C11_ClosedAccessRefused ==
    [][ ( /\ \/ /\ last'.op = "null_pointer_demo"
                /\ ~last'.arg.use_null
             \/ last'.op = "uninitialized_memory_demo"
          /\ target.exists
          /\ target.is_active = 0 )
        => last'.ret # "Ok" ]_vars

\* the lifecycle state of a Vault and of a TargetAccount / ComplexAccount
VaultState(v) ==
    IF ~v.exists THEN "Uninitialized"
    ELSE IF v.is_active THEN "Active" ELSE "Closed"

RecordState(r) ==
    IF ~r.exists THEN "Uninitialized"
    ELSE IF r.is_active = 1 THEN "Active" ELSE "Closed"

\* a record goes from state s to state t along the lifecycle
LifecycleMove(s, t, by_init, by_close, by_recover) ==
    \/ s = t
    \/ s = "Uninitialized" /\ t = "Active" /\ by_init
    \/ s = "Active" /\ t = "Closed" /\ by_close
    \/ s = "Closed" /\ t = "Active" /\ by_recover

\* C12: a record becomes Active only by its initialization from
\* Uninitialized or by a recover of the designated authority from Closed,
\* and Closed only from Active by a close; no other instruction changes
\* is_active, and is_initialized never changes once the record is there.
C12_LifecycleMoves ==
    [][ /\ LifecycleMove(VaultState(vault), VaultState(vault'),
              last'.op = "initialize_vault",
              last'.op = "emergency_close_vault",
              /\ last'.op = "emergency_recover"
              /\ last'.arg.authority = ADMIN_PUBKEY
              /\ last'.arg.signed)
        /\ LifecycleMove(RecordState(target), RecordState(target'),
              last'.op = "initialize_target",
              last'.op = "double_free_demo",
              FALSE)
        /\ LifecycleMove(RecordState(complex), RecordState(complex'),
              last'.op = "initialize_complex",
              /\ last'.op = "complex_vulnerability_demo"
              /\ last'.arg.operation = 3,
              FALSE)
        /\ target.exists => target'.is_initialized = target.is_initialized
        /\ complex.exists => complex'.is_initialized = complex.is_initialized
      ]_vars

\* the designated authority has recovered the vault, which is active again
C12_Witness ==
    /\ last.op = "emergency_recover"
    /\ last.ret = "Ok"
    /\ last.arg.authority = ADMIN_PUBKEY
    /\ vault.is_active
    /\ vault.total_deposited > 0

\* C13: emergency_recover and emergency_close_vault signed by an authority
\* other than ADMIN_PUBKEY return Unauthorized and change nothing: the
\* vault, and the image the handler leaves, are the vault before the call.
C13_OtherAuthorityRefused ==
    [][ ( /\ last'.op \in {"emergency_recover", "emergency_close_vault"}
          /\ vault.exists
          /\ last'.arg.signed
          /\ last'.arg.authority # ADMIN_PUBKEY )
        => ( /\ last'.ret = "Unauthorized"
             /\ vault' = vault
             /\ written' = vault ) ]_vars

\* the vault's owner, who is not the authority, has asked to recover the
\* closed vault that holds the deposit, and was refused
C13_Witness ==
    /\ last.op = "emergency_recover"
    /\ last.ret = "Unauthorized"
    /\ last.arg.signed
    /\ last.arg.authority = vault.owner
    /\ ~vault.is_active
    /\ vault.total_deposited > 0

\* C14: closing a vault takes the signature of the vault's owner: a close
\* asked by anyone else, or not signed, fails and leaves the vault active;
\* a close the owner has signed is not refused as unauthorized.
C14_CloseNeedsOwnerSignature ==
    [][ ( /\ last'.op = "emergency_close_vault"
          /\ vault.exists
          /\ vault.is_active )
        => /\ ( last'.arg.authority # vault.owner \/ ~last'.arg.signed )
                => ( last'.ret # "Ok" /\ vault'.is_active )
           /\ ( last'.arg.authority = vault.owner /\ last'.arg.signed )
                => last'.ret # "Unauthorized" ]_vars

\* C15: complex_vulnerability_demo with an operation code outside 1..3
\* returns InvalidOperation whatever the data, and neither the account nor
\* the image the handler leaves differs from the account before the call.
C15_UnknownOperationRefused ==
    [][ ( /\ last'.op = "complex_vulnerability_demo"
          /\ last'.arg.operation \notin 1..3
          /\ complex.exists )
        => ( /\ last'.ret = "InvalidOperation"
             /\ complex' = complex
             /\ written' = complex ) ]_vars

\* an unknown code with an overlong payload was refused on an active record
\* whose buffer holds data
C15_Witness ==
    /\ last.op = "complex_vulnerability_demo"
    /\ last.arg.operation = 4
    /\ Len(last.arg.data) > COMPLEX_CAP
    /\ last.ret = "InvalidOperation"
    /\ complex.is_active = 1
    /\ complex.buffer[COMPLEX_CAP] # 0

\* the owner's signed deposit whose sum with the balance is above u64::MAX
DepositOverflows ==
    /\ last'.op = "deposit"
    /\ vault.exists
    /\ last'.arg.owner = vault.owner
    /\ last'.arg.signed
    /\ vault.total_deposited + last'.arg.amount > MaxU64

C17_InactiveWithdrawRefused ==
    [][ ( OwnerWithdraws /\ ~vault.is_active )
        => ( /\ last'.ret = "VaultInactive"
             /\ vault' = vault
             /\ vaultTok' = vaultTok
             /\ tok' = tok
             /\ written'.vault = vault ) ]_vars

\* a withdraw of more than the balance was refused as VaultInactive on a
\* closed vault that holds tokens
C17_Witness ==
    /\ last.op = "withdraw"
    /\ last.ret = "VaultInactive"
    /\ last.arg.amount > vault.total_deposited
    /\ vault.total_deposited > 0
    /\ ~vault.is_active

\* C18 as claimed: after a successful initialize_vault by owner O the new
\* record is active, its owner is O and its balance is 0 (vault_manager's
\* Vault has no flag and no balance field: its token account holds 0).
C18_AsClaimed ==
    [][ /\ ( last'.op = "initialize_vault" /\ last'.ret = "Ok" )
           => ( /\ vault'.is_active
                /\ vault'.owner = last'.arg.owner
                /\ vault'.total_deposited = 0 )
        /\ ( last'.op = "vault_manager::initialize_vault"
             /\ last'.ret = "Ok" )
           => ( /\ vm'.owner = last'.arg.owner
                /\ vmTok' = 0 ) ]_vars

\* C18 amended: after a successful initialize_vault(initial_deposit) by
\* owner O the new record is active, its owner is O, and its balance is
\* initial_deposit, which has moved from the user's token account to the
\* vault's; vault_manager's initialize_vault sets the owner and moves nothing.
C18_InitializedVault ==
    [][ /\ ( last'.op = "initialize_vault" /\ last'.ret = "Ok" )
           => ( /\ ~vault.exists
                /\ vault'.exists
                /\ vault'.is_active
                /\ vault'.owner = last'.arg.owner
                /\ vault'.total_deposited = last'.arg.amount
                /\ vaultTok' = last'.arg.amount
                /\ tok'[last'.arg.uta]
                     = tok[last'.arg.uta] - last'.arg.amount )
        /\ ( last'.op = "vault_manager::initialize_vault"
             /\ last'.ret = "Ok" )
           => ( /\ ~vm.exists
                /\ vm'.exists
                /\ vm'.owner = last'.arg.owner
                /\ vmTok' = 0
                /\ tok' = tok ) ]_vars

\* a vault has been initialized with a deposit
C18_Witness ==
    /\ last.op = "initialize_vault"
    /\ last.ret = "Ok"
    /\ last.arg.amount > 0
    /\ vault.is_active
    /\ vault.owner = last.arg.owner
    /\ vault.total_deposited = last.arg.amount

\* a buffer_overflow_demo that succeeded, as a step
BufferWritten ==
    /\ last'.op = "buffer_overflow_demo"
    /\ last'.ret = "Ok"
    /\ buffer.exists

\* C19 as claimed, in what it says of the length: a successful write of n
\* bytes (at offset 0) sets size to max(previous size, n).
C19_AsClaimed ==
    [][ BufferWritten
        => buffer'.size = IF buffer.size > Len(last'.arg.data)
                          THEN buffer.size
                          ELSE Len(last'.arg.data) ]_vars

\* C19 amended: a successful write of n bytes copies exactly the n bytes to
\* the start of data, leaves every other byte as it was, and sets size to n,
\* also when n is less than the previous size.
C19_WriteCopiesExactly ==
    [][ BufferWritten
        => ( /\ \A i \in 1..BUFFER_CAP :
                  buffer'.data[i] = IF i <= Len(last'.arg.data)
                                    THEN last'.arg.data[i]
                                    ELSE buffer.data[i]
             /\ buffer'.size = Len(last'.arg.data) ) ]_vars

\* a shorter write after a longer one: the tail of the longer one is still
\* there, and size is the length of the shorter
C19_Witness ==
    /\ last.op = "buffer_overflow_demo"
    /\ last.ret = "Ok"
    /\ Len(last.arg.data) = COMPLEX_CAP
    /\ buffer.size = COMPLEX_CAP
    /\ buffer.data[BUFFER_CAP] # 0
    /\ buffer.data[BUFFER_CAP] # buffer.data[1]

\* C20: a handler that returns an error has written no field of the record
\* before it returns: the image it leaves is the account it was handed.
\* Stated of the handlers the claim names: use_after_free_demo, operation 2
\* of complex_vulnerability_demo, and deposit.
C20_NoWriteBeforeError ==
    [][ /\ ( /\ last'.op = "use_after_free_demo"
             /\ target.exists
             /\ last'.ret # "Ok" )
           => written' = target
        /\ ( /\ last'.op = "complex_vulnerability_demo"
             /\ last'.arg.operation = 2
             /\ complex.exists
             /\ last'.ret # "Ok" )
           => written' = complex
        /\ ( /\ last'.op = "deposit"
             /\ vault.exists
             /\ last'.ret # "Ok" )
           => written'.vault = vault ]_vars

\* C21: use_after_free_demo and operation 2 of complex_vulnerability_demo
\* never return Ok; on a record that is there they return UseAfterFree
\* whatever its fields, active or not, and the account stays as it was.
C21_AlwaysUseAfterFree ==
    [][ /\ ( \/ last'.op = "use_after_free_demo"
             \/ /\ last'.op = "complex_vulnerability_demo"
                /\ last'.arg.operation = 2 )
           => last'.ret # "Ok"
        /\ ( last'.op = "use_after_free_demo" /\ target.exists )
           => ( last'.ret = "UseAfterFree" /\ target' = target )
        /\ ( /\ last'.op = "complex_vulnerability_demo"
             /\ last'.arg.operation = 2
             /\ complex.exists )
           => ( last'.ret = "UseAfterFree" /\ complex' = complex ) ]_vars

\* use_after_free_demo has returned UseAfterFree on a record that is active
C21_Witness ==
    /\ last.op = "use_after_free_demo"
    /\ last.ret = "UseAfterFree"
    /\ target.is_active = 1
    /\ written.is_active = 0

\* C22: a record created by initialize_target or initialize_complex has
\* is_initialized = 1 in every state the program's instructions reach, and
\* uninitialized_memory_demo on such a record has returned Ok.
C22_StaysInitialized ==
    /\ target.exists => target.is_initialized = 1
    /\ complex.exists => complex.is_initialized = 1
    /\ ( last.op = "uninitialized_memory_demo" /\ target.exists )
       => last.ret = "Ok"

\* uninitialized_memory_demo has succeeded on a record that was closed
C22_Witness ==
    /\ last.op = "uninitialized_memory_demo"
    /\ last.ret = "Ok"
    /\ target.exists
    /\ target.is_active = 0
    /\ target.is_initialized = 1

C24_CheckedSubNeverFails ==
    [][ /\ last'.op = "withdraw" => last'.ret # "Panic"
        /\ ( /\ OwnerWithdraws
             /\ vault.is_active
             /\ last'.ret \notin {"VaultInactive", "InsufficientFunds"} )
           => ( /\ last'.arg.amount <= vault.total_deposited
                /\ written'.vault.total_deposited
                     = vault.total_deposited - last'.arg.amount
                /\ written'.vault.total_deposited >= 0 )
        /\ vault'.exists => vault'.total_deposited >= 0 ]_vars

\* the subtraction was reached with amount = total_deposited: the whole
\* balance was asked for, and the token program then refused the transfer
C24_Witness ==
    /\ last.op = "withdraw"
    /\ last.ret = "TokenMintMismatch"
    /\ last.arg.amount = vault.total_deposited
    /\ last.arg.amount > 0
    /\ written.vault.total_deposited = 0

====
